---- MODULE Spec2Model ----
(***************************************************************************)
(* Settlement and tier-projection engine of the influencer analytics       *)
(* dashboard: calculateTierBonus, calculateProjectedGmv and                *)
(* calculateCreatorSettlements of the data service, the payments table and *)
(* settlement email of EarningsTab, tierProgressList and the rush analysis *)
(* panel of TierRewardsTracker, the enrichment of fetchData, and the load  *)
(* effect of App.                                                          *)
(*                                                                         *)
(* JavaScript numbers are modelled as exact rationals [n, d] in lowest     *)
(* terms (d > 0); floating-point rounding is not modelled.  A division by  *)
(* zero gives d = 0: n = 1 and n = -1 are +Infinity and -Infinity, n = 0   *)
(* is NaN.  Dates are whole days of the year 2026, day 1 being 1 January;  *)
(* day 0 is an invalid date (NaN).                                         *)
(***************************************************************************)
EXTENDS Integers, Sequences, FiniteSets, TLC

VARIABLES adData, bonusCalData, startDate, endDate, isMonthlyPeriod, now,
          earningsSummary, payments, emails,
          tierData, selectedMonth, tierProgressList, pc,
          sheetRows, processed, panelProps, rushPanel, app

vars == <<adData, bonusCalData, startDate, endDate, isMonthlyPeriod, now,
          earningsSummary, payments, emails,
          tierData, selectedMonth, tierProgressList, pc,
          sheetRows, processed, panelProps, rushPanel, app>>

settleVars == <<adData, bonusCalData, startDate, endDate, isMonthlyPeriod,
                earningsSummary, payments, emails>>

trackerVars == <<tierData, selectedMonth, tierProgressList>>

enrichVars == <<sheetRows, processed>>

panelVars == <<panelProps, rushPanel>>

\* the promises of the load effect and the loading and error state of App
loadVars == <<app>>

\* null / undefined
Null == [null |-> TRUE]

-----------------------------------------------------------------------------
(* Numbers *)

Abs(i) == IF i < 0 THEN -i ELSE i

RECURSIVE Gcd(_, _)
Gcd(a, b) == IF b = 0 THEN a ELSE Gcd(b, a % b)

Sign(i) == IF i < 0 THEN -1 ELSE IF i > 0 THEN 1 ELSE 0

\* the rational n/d in lowest terms; with d = 0 an infinity or NaN
Norm(n, d) ==
  LET g == Gcd(Abs(n), Abs(d))
      s == IF d < 0 THEN -1 ELSE 1
  IN  IF d = 0 THEN [n |-> Sign(n), d |-> 0]
      ELSE [n |-> (s * n) \div g, d |-> (s * d) \div g]

\* Number.isFinite
IsFinite(x) == x.d # 0

Num(i) == [n |-> i, d |-> 1]
Zero == Num(0)
RAdd(x, y) == Norm(x.n * y.d + y.n * x.d, x.d * y.d)
RSub(x, y) == Norm(x.n * y.d - y.n * x.d, x.d * y.d)
RMul(x, y) == Norm(x.n * y.n, x.d * y.d)
\* x / y; x / 0 is an infinity, or NaN when x is 0
RDiv(x, y) == Norm(x.n * y.d, x.d * y.n)
RLt(x, y) == x.n * y.d < y.n * x.d
RLe(x, y) == x.n * y.d <= y.n * x.d
RGt(x, y) == RLt(y, x)
RGe(x, y) == RLe(y, x)
RMax(x, y) == IF RGe(x, y) THEN x ELSE y
\* Math.ceil
Ceil(x) == IF x.n % x.d = 0 THEN x.n \div x.d ELSE (x.n \div x.d) + 1

Half == Norm(1, 2)

-----------------------------------------------------------------------------
(* Dates: new Date(y, m + 1, 0) is the last day of month m *)

MonthLengths == <<31, 28, 31, 30, 31, 30, 31, 31, 30, 31, 30, 31>>

RECURSIVE MonthFrom(_, _)
MonthFrom(day, m) ==
  IF m = Len(MonthLengths) \/ day <= MonthLengths[m] THEN m
  ELSE MonthFrom(day - MonthLengths[m], m + 1)

\* Date.getMonth() + 1
MonthOf(day) == MonthFrom(day, 1)

RECURSIVE DaysBefore(_)
DaysBefore(m) == IF m = 1 THEN 0 ELSE DaysBefore(m - 1) + MonthLengths[m - 1]

\* new Date(y, m, 1) and new Date(y, m + 1, 0)
FirstDayOfMonth(m) == DaysBefore(m) + 1
LastDayOfMonth(m) == DaysBefore(m) + MonthLengths[m]

-----------------------------------------------------------------------------
(* Arrays *)

Max(a, b) == IF a >= b THEN a ELSE b

SetMax(S) == CHOOSE x \in S : \A y \in S : y <= x
SetMin(S) == CHOOSE x \in S : \A y \in S : x <= y

\* sum of f[x] over x in S
RECURSIVE RSum(_, _)
RSum(f, S) ==
  IF S = {} THEN Zero
  ELSE LET x == CHOOSE y \in S : TRUE
       IN  RAdd(f[x], RSum(f, S \ {x}))

\* the comparator of a sort on one numeric key is negative: descending is
\* the comparator b.key - a.key, ascending a.key - b.key
Before(key, descending, i, j) ==
  IF descending THEN RGt(key[i], key[j]) ELSE RLt(key[i], key[j])

\* i inserted into the sorted indices prev, after every index not after it
InsertIndex(prev, i, key, descending) ==
  LET k == Cardinality({j \in 1..Len(prev) : ~Before(key, descending, i, prev[j])})
  IN  SubSeq(prev, 1, k) \o <<i>> \o SubSeq(prev, k + 1, Len(prev))

\* the indices 1..n in sorted order; equal keys keep their order
RECURSIVE SortedIndices(_, _, _)
SortedIndices(n, key, descending) ==
  IF n = 0 THEN <<>>
  ELSE InsertIndex(SortedIndices(n - 1, key, descending), n, key, descending)

Permute(s, order) == [k \in 1..Len(s) |-> s[order[k]]]

\* Array.prototype.sort with a comparator on one numeric key: stable;
\* key[i] is the key of s[i]
SortBy(s, key, descending) ==
  Permute(s, SortedIndices(Len(s), key, descending))

-----------------------------------------------------------------------------
(* Data service: fetchData, from the parsed sheet rows to the enriched     *)
(* records.  The sheet cells are modelled parsed: a row is                 *)
(* [date, creatorName, contentName, spend, gmv, earning].                  *)

\* .filter(d => !isNaN(d.date.getTime()))
ValidDate(d) == d.date # 0

\* the sort key of the raw records: (a, b) => a.date - b.date
DatesOf(rawData) == [k \in 1..Len(rawData) |-> Num(rawData[k].date)]

\* mutant: the records keep the order of the sheet
RawDataUnsorted(rows) == SelectSeq(rows, ValidDate)

\* rawData: the rows of valid date, sorted by date
RawData(rows) ==
  LET Sorted(valid) == SortBy(valid, DatesOf(valid), FALSE)
  IN  Sorted(SelectSeq(rows, ValidDate))

\* mutant: the ratio is taken whatever the spend
RoiUnguarded(spend, earning) == RDiv(earning, spend)

\* spend > 0 ? earning / spend : 0, of a record and of its accumulator
Roi(spend, earning) ==
  IF RGt(spend, Zero) THEN RDiv(earning, spend) ELSE Zero

\* mutant: every record starts a new accumulator
PrevCumulativeForgets(cumulativeMap, contentName) ==
  [spend |-> Zero, earning |-> Zero]

\* cumulativeMap.get(item.contentName) || { spend: 0, earning: 0 }
PrevCumulative(cumulativeMap, contentName) ==
  IF contentName \in DOMAIN cumulativeMap THEN cumulativeMap[contentName]
  ELSE [spend |-> Zero, earning |-> Zero]

\* the body of rawData.map: acc is the accumulator map and the records
\* emitted so far, index the 0-based position of item
ProcessItem(acc, item, index) ==
  LET prev == PrevCumulative(acc.cumulativeMap, item.contentName)
      Step(roi, newCumSpend, newCumEarning) ==
        [cumulativeMap |->
           [c \in DOMAIN acc.cumulativeMap \cup {item.contentName} |->
              IF c = item.contentName
              THEN [spend |-> newCumSpend, earning |-> newCumEarning]
              ELSE acc.cumulativeMap[c]],
         processed |->
           Append(acc.processed,
                  [date |-> item.date, creatorName |-> item.creatorName,
                   contentName |-> item.contentName, spend |-> item.spend,
                   gmv |-> item.gmv, earning |-> item.earning,
                   id |-> <<item.contentName, index>>,
                   roi |-> roi,
                   cumulativeSpend |-> newCumSpend,
                   cumulativeEarning |-> newCumEarning,
                   cumulativeRoi |-> Roi(newCumSpend, newCumEarning)])]
  IN  Step(Roi(item.spend, item.earning),
           RAdd(prev.spend, item.spend),
           RAdd(prev.earning, item.earning))

\* rawData.map over the first k records
RECURSIVE ProcessFirst(_, _)
ProcessFirst(rawData, k) ==
  IF k = 0 THEN [cumulativeMap |-> <<>>, processed |-> <<>>]
  ELSE ProcessItem(ProcessFirst(rawData, k - 1), rawData[k], k - 1)

fetchData(rows) ==
  LET Processed(rawData) == ProcessFirst(rawData, Len(rawData)).processed
  IN  Processed(RawData(rows))

-----------------------------------------------------------------------------
(* Data service: tier bonus and projection *)

\* the sort key of a tier list: (a, b) => b.threshold - a.threshold
ThresholdsOf(tiers) == [k \in 1..Len(tiers) |-> tiers[k].threshold]

\* the bonus of the first tier of sortedTiers that the revenue reaches
FirstReachedBonus(revenue, sortedTiers) ==
  LET reached == {i \in 1..Len(sortedTiers) :
                    RGe(revenue, sortedTiers[i].threshold)}
  IN  IF reached = {} THEN Zero
      ELSE sortedTiers[SetMin(reached)].bonus

calculateTierBonus(revenue, tiers) ==
  IF Len(tiers) = 0 THEN Zero
  ELSE FirstReachedBonus(revenue, SortBy(tiers, ThresholdsOf(tiers), TRUE))

\* the trailing window of the projection: latestDate - 3 days
ProjectionWindowDays == 3

\* the records of the last days of the creator's data: date >= latest - 3
RecentData(creatorData) ==
  LET latestDate == SetMax({creatorData[i].date : i \in 1..Len(creatorData)})
      threeDaysAgo == latestDate - ProjectionWindowDays
  IN  SelectSeq(creatorData, LAMBDA d : ~(d.date < threeDaysAgo))

\* sum over the posts of avgDailyGmv * daysRemaining
ProjectedGmvOf(recent, daysRemaining) ==
  LET posts == {recent[i].contentName : i \in 1..Len(recent)}
      rows(c) == {i \in 1..Len(recent) : recent[i].contentName = c}
      gmv(c) == RSum([i \in 1..Len(recent) |-> recent[i].gmv], rows(c))
      days(c) == Cardinality({recent[i].date : i \in rows(c)})
  IN  RSum([c \in posts |->
              IF days(c) > 0
              THEN RMul(RDiv(gmv(c), Num(days(c))), Num(daysRemaining))
              ELSE Zero],
           posts)

calculateProjectedGmv(data, creatorName, daysRemaining) ==
  LET Projected(creatorData) ==
        IF Len(creatorData) = 0 THEN Zero
        ELSE ProjectedGmvOf(RecentData(creatorData), daysRemaining)
  IN  Projected(SelectSeq(data, LAMBDA d : d.creatorName = creatorName))

-----------------------------------------------------------------------------
(* Data service: calculateCreatorSettlements *)

\* date >= startDate && date <= endDate
InWindow(d, start, end) == d.date >= start /\ d.date <= end

\* creatorDataMap: one entry per creator of the filtered records, in the
\* order of first appearance (Map insertion order)
CreatorDataMap(filteredData) ==
  LET n == Len(filteredData)
      rows(c) == {i \in 1..n : filteredData[i].creatorName = c}
      Entries(firsts) ==
        [k \in 1..Len(firsts) |->
           LET c == filteredData[firsts[k]].creatorName
           IN  [creatorName |-> c,
                spend   |-> RSum([i \in 1..n |-> filteredData[i].spend], rows(c)),
                earning |-> RSum([i \in 1..n |-> filteredData[i].earning], rows(c))]]
  IN  Entries(SelectSeq([i \in 1..n |-> i],
                        LAMBDA i : \A j \in 1..(i - 1) :
                           filteredData[j].creatorName # filteredData[i].creatorName))

\* creatorDataMap.get(name), Null when absent
MapGet(map, name) ==
  IF \E k \in 1..Len(map) : map[k].creatorName = name
  THEN map[CHOOSE k \in 1..Len(map) : map[k].creatorName = name]
  ELSE Null

\* mutant: the last day of the window is not counted
PeriodDaysExclusive(start, end) == Ceil(Num(end - start))

\* Math.ceil((endDate - startDate) / 1 day) + 1
PeriodDays(start, end) == Ceil(Num(end - start)) + 1

\* new Date(endDate.getFullYear(), endDate.getMonth() + 1, 0).getDate()
DaysInMonth(day) == MonthLengths[MonthOf(day)]

PeriodRatio(start, end) == Norm(PeriodDays(start, end), DaysInMonth(end))

\* Math.max(1, Math.ceil((endOfMonth - now) / 1 day)); the time of day of
\* `now` does not change the ceiling
DaysRemaining(today) == Max(1, Ceil(Num(LastDayOfMonth(MonthOf(today)) - today)))

\* useMonthlyCommission ? bonusCal.commissionAds : (creatorData?.earning || 0)
CommissionEarning(useMonthlyCommission, bonusCal, creatorData) ==
  IF useMonthlyCommission THEN bonusCal.commissionAds
  ELSE IF creatorData = Null THEN Zero ELSE creatorData.earning

\* useMonthlyCommission ? bonusDiffMonthly : bonusDiffMonthly * periodRatio
BonusDiffProrated(useMonthlyCommission, bonusDiffMonthly, periodRatio) ==
  IF useMonthlyCommission THEN bonusDiffMonthly
  ELSE RMul(bonusDiffMonthly, periodRatio)

\* mutant: the organic bonus minus the projected bonus
BonusDiffMonthlySwapped(projectedTotalTierBonus, organicTierBonus) ==
  RSub(organicTierBonus, projectedTotalTierBonus)

\* bonusDiffMonthly = projectedTotalTierBonus - organicTierBonus
BonusDiffMonthly(projectedTotalTierBonus, organicTierBonus) ==
  RSub(projectedTotalTierBonus, organicTierBonus)

\* mutant: a zero profit counts as profitable
IsProfitableNonStrict(totalProfit) == RGe(totalProfit, Zero)

IsProfitable(totalProfit) == RGt(totalProfit, Zero)

\* mutant: the platform takes half of a loss too
MarginTecdoHalvesLoss(isProfitable, totalProfit) == RMul(Half, totalProfit)

MarginTecdo(isProfitable, totalProfit) ==
  IF isProfitable THEN RMul(Half, totalProfit) ELSE totalProfit

\* the body of bonusCalData.forEach: the creator's settlement, or Null when
\* the creator is skipped
SnapshotSettlement(data, bonusCal, creatorDataMap, useMonthlyCommission, periodRatio, daysRemaining) ==
  LET creatorData == MapGet(creatorDataMap, bonusCal.creatorName)
      adSpend == IF creatorData = Null THEN Zero ELSE creatorData.spend
      commissionEarning ==
        CommissionEarning(useMonthlyCommission, bonusCal, creatorData)
      Settlement(projectedTotalTierBonus, organicTierBonus) ==
        LET bonusDiffMonthly ==
              BonusDiffMonthly(projectedTotalTierBonus, organicTierBonus)
            bonusDiffProrated ==
              BonusDiffProrated(useMonthlyCommission, bonusDiffMonthly, periodRatio)
            totalEarning == RAdd(commissionEarning, bonusDiffProrated)
            totalProfit == RSub(totalEarning, adSpend)
            isProfitable == IsProfitable(totalProfit)
        IN  [creatorName       |-> bonusCal.creatorName,
             adSpend           |-> adSpend,
             commissionEarning |-> commissionEarning,
             profit            |-> totalProfit,
             bonusDiff         |-> bonusDiffMonthly,
             bonusDiffWeekly   |-> bonusDiffProrated,
             marginTecdo       |-> MarginTecdo(isProfitable, totalProfit),
             isProfitable      |-> isProfitable,
             totalTierBonus    |-> projectedTotalTierBonus,
             organicTierBonus  |-> organicTierBonus]
      projectedGmv ==
        calculateProjectedGmv(data, bonusCal.creatorName, daysRemaining)
      projectedTotalRevenue == RAdd(bonusCal.totalShippedRevenue, projectedGmv)
  IN  IF commissionEarning = Zero /\ adSpend = Zero THEN Null
      ELSE Settlement(calculateTierBonus(projectedTotalRevenue, bonusCal.tiers),
                      calculateTierBonus(bonusCal.shippedRevOrganic, bonusCal.tiers))

\* mutant: the degraded profit forgets the ad spend
DegradedSettlementIgnoresSpend(entry) ==
  LET totalProfit == entry.earning
      isProfitable == RGt(totalProfit, Zero)
  IN  [creatorName       |-> entry.creatorName,
       adSpend           |-> entry.spend,
       commissionEarning |-> entry.earning,
       profit            |-> totalProfit,
       bonusDiff         |-> Zero,
       bonusDiffWeekly   |-> Zero,
       marginTecdo       |-> IF isProfitable THEN RMul(Half, totalProfit)
                             ELSE totalProfit,
       isProfitable      |-> isProfitable,
       totalTierBonus    |-> Zero,
       organicTierBonus  |-> Zero]

\* the settlement of a creator with ad data but no settlement from the
\* bonus cal loop
DegradedSettlement(entry) ==
  LET totalEarning == entry.earning
      totalProfit == RSub(totalEarning, entry.spend)
      isProfitable == RGt(totalProfit, Zero)
  IN  [creatorName       |-> entry.creatorName,
       adSpend           |-> entry.spend,
       commissionEarning |-> entry.earning,
       profit            |-> totalProfit,
       bonusDiff         |-> Zero,
       bonusDiffWeekly   |-> Zero,
       marginTecdo       |-> IF isProfitable THEN RMul(Half, totalProfit)
                             ELSE totalProfit,
       isProfitable      |-> isProfitable,
       totalTierBonus    |-> Zero,
       organicTierBonus  |-> Zero]

\* mutant: the comparator is a.adSpend - b.adSpend
AdSpendsNegated(settlements) ==
  [k \in 1..Len(settlements) |-> RSub(Zero, settlements[k].adSpend)]

\* the sort key of the settlements: (a, b) => b.adSpend - a.adSpend
AdSpendsOf(settlements) ==
  [k \in 1..Len(settlements) |-> settlements[k].adSpend]

\* bonusCalData.forEach: the settlements of the snapshot creators that
\* are not skipped, in snapshot order
SnapshotSettlements(data, bonusCal, creatorDataMap, useMonthlyCommission, periodRatio, daysRemaining) ==
  SelectSeq([k \in 1..Len(bonusCal) |->
               SnapshotSettlement(data, bonusCal[k], creatorDataMap,
                                  useMonthlyCommission, periodRatio,
                                  daysRemaining)],
            LAMBDA x : x # Null)

\* mutant: a degraded settlement is pushed for every creator with ad data
WithDegradedSettlementsForAll(creatorDataMap, settlements) ==
  settlements \o
    [k \in 1..Len(creatorDataMap) |-> DegradedSettlement(creatorDataMap[k])]

\* creatorDataMap.forEach: a degraded settlement is pushed for every
\* creator with ad data that has no settlement yet
WithDegradedSettlements(creatorDataMap, settlements) ==
  LET settled == {settlements[k].creatorName : k \in 1..Len(settlements)}
      Degraded(missing) ==
        [k \in 1..Len(missing) |-> DegradedSettlement(missing[k])]
  IN  settlements \o
        Degraded(SelectSeq(creatorDataMap,
                           LAMBDA e : e.creatorName \notin settled))

\* the totals over the settlements
EarningsSummaryOf(settlements) ==
  LET idx == 1..Len(settlements)
  IN  [totalSpend       |-> RSum([k \in idx |-> settlements[k].adSpend], idx),
       totalCommission  |-> RSum([k \in idx |-> settlements[k].commissionEarning], idx),
       totalProfit      |-> RSum([k \in idx |-> settlements[k].profit], idx),
       totalBonusDiff   |-> RSum([k \in idx |-> settlements[k].bonusDiffWeekly], idx),
       totalMarginTecdo |-> RSum([k \in idx |-> settlements[k].marginTecdo], idx),
       creatorSettlements |-> settlements]

calculateCreatorSettlements(data, bonusCal, start, end, monthly, today) ==
  LET useMonthlyCommission == monthly
      Sorted(unsorted) == SortBy(unsorted, AdSpendsOf(unsorted), TRUE)
      SettlementsFor(creatorDataMap) ==
        Sorted(WithDegradedSettlements(
                 creatorDataMap,
                 SnapshotSettlements(data, bonusCal, creatorDataMap,
                                     useMonthlyCommission,
                                     PeriodRatio(start, end),
                                     DaysRemaining(today))))
  IN  EarningsSummaryOf(
        SettlementsFor(
          CreatorDataMap(SelectSeq(data, LAMBDA d : InWindow(d, start, end)))))

-----------------------------------------------------------------------------
(* EarningsTab: "Creator Payments to Tecdo" table and settlement email *)

\* mutant: the commission payment adds the bonus half instead of deducting it
PaymentRowAddsBonusHalf(settlement) ==
  LET isProfitable == RGe(settlement.profit, Zero)
      paymentOnBonus ==
        IF isProfitable THEN RMul(settlement.bonusDiff, Half)
        ELSE settlement.bonusDiff
      paymentOnCommission ==
        IF isProfitable
        THEN RAdd(RAdd(RMul(settlement.profit, Half), settlement.adSpend),
                  RMul(settlement.bonusDiff, Half))
        ELSE settlement.commissionEarning
  IN  [creatorName         |-> settlement.creatorName,
       isProfitable        |-> isProfitable,
       paymentOnBonus      |-> paymentOnBonus,
       paymentOnCommission |-> paymentOnCommission,
       totalPayment        |-> RAdd(paymentOnBonus, paymentOnCommission)]

\* mutant: the bonus payment is halved in the loss branch too
PaymentRowHalvesBonus(settlement) ==
  LET isProfitable == RGe(settlement.profit, Zero)
      paymentOnBonus == RMul(settlement.bonusDiff, Half)
      paymentOnCommission ==
        IF isProfitable
        THEN RSub(RAdd(RMul(settlement.profit, Half), settlement.adSpend),
                  RMul(settlement.bonusDiff, Half))
        ELSE settlement.commissionEarning
  IN  [creatorName         |-> settlement.creatorName,
       isProfitable        |-> isProfitable,
       paymentOnBonus      |-> paymentOnBonus,
       paymentOnCommission |-> paymentOnCommission,
       totalPayment        |-> RAdd(paymentOnBonus, paymentOnCommission)]

\* one row of the payments table
PaymentRow(settlement) ==
  LET isProfitable == RGe(settlement.profit, Zero)
      paymentOnBonus ==
        IF isProfitable THEN RMul(settlement.bonusDiff, Half)
        ELSE settlement.bonusDiff
      paymentOnCommission ==
        IF isProfitable
        THEN RSub(RAdd(RMul(settlement.profit, Half), settlement.adSpend),
                  RMul(settlement.bonusDiff, Half))
        ELSE settlement.commissionEarning
  IN  [creatorName         |-> settlement.creatorName,
       isProfitable        |-> isProfitable,
       paymentOnBonus      |-> paymentOnBonus,
       paymentOnCommission |-> paymentOnCommission,
       totalPayment        |-> RAdd(paymentOnBonus, paymentOnCommission)]

\* the amounts of one creator's settlement email
EmailAmounts(s) ==
  LET isProfitable == RGe(s.profit, Zero)
      rewardsPayment ==
        IF isProfitable THEN RMul(s.bonusDiff, Half) ELSE s.bonusDiff
      commissionPayment ==
        IF isProfitable
        THEN RSub(RAdd(RMul(s.profit, Half), s.adSpend), RMul(s.bonusDiff, Half))
        ELSE s.commissionEarning
  IN  [creatorName       |-> s.creatorName,
       bonusDiff         |-> s.bonusDiff,
       commissionEarning |-> s.commissionEarning,
       adSpend           |-> s.adSpend,
       profit            |-> s.profit,
       isProfitable      |-> isProfitable,
       rewardsPayment    |-> rewardsPayment,
       commissionPayment |-> commissionPayment,
       totalDue          |-> RAdd(rewardsPayment, commissionPayment)]

\* the table is rendered when hasValidData && useBonusCalCommission; no
\* rows otherwise
PaymentsTable(summary, monthly, bonusCal) ==
  IF monthly /\ Len(bonusCal) > 0
  THEN [k \in 1..Len(summary.creatorSettlements) |->
          PaymentRow(summary.creatorSettlements[k])]
  ELSE <<>>

\* the email section settles the whole data month of the bonus cal
\* snapshots with the monthly commission
SettlementEmails(data, bonusCal, today) ==
  IF Len(bonusCal) = 0 THEN <<>>
  ELSE LET months == {bonusCal[k].dataMonth : k \in 1..Len(bonusCal)}
           effectiveEmailMonth == SetMax(months)
           emailBonusCalData ==
             SelectSeq(bonusCal, LAMBDA d : d.dataMonth = effectiveEmailMonth)
           Emails(emailSettlements) ==
             [k \in 1..Len(emailSettlements) |->
                EmailAmounts(emailSettlements[k])]
       IN  Emails(calculateCreatorSettlements(
                    data, emailBonusCalData,
                    FirstDayOfMonth(effectiveEmailMonth),
                    LastDayOfMonth(effectiveEmailMonth),
                    TRUE, today).creatorSettlements)

-----------------------------------------------------------------------------
(* TierRewardsTracker *)

\* mutant: every selected month counts as the current month
IsCurrentMonthAlways(month, today) == month \in 0..12

\* the selected month is the current month
IsCurrentMonth(month, today) == month = MonthOf(today)

\* mutant: the days left are counted for a historical month too
TrackerDaysRemainingAnyMonth(month, today) == DaysRemaining(today)

\* 0 for a historical month, else the days left in the current month
TrackerDaysRemaining(month, today) ==
  IF ~IsCurrentMonth(month, today) THEN 0 ELSE DaysRemaining(today)

\* months are numbered 1..12; 0 is the empty selection ''
FilteredTierData(tiersOfCreators, month) ==
  IF month = 0 THEN tiersOfCreators
  ELSE SelectSeq(tiersOfCreators, LAMBDA t : t.dataMonth = month)

\* the sort key of a creator's posts: (a, b) => b.roas - a.roas
RoasOf(posts) == [k \in 1..Len(posts) |-> posts[k].roas]

\* the PostEfficiency of one post from its sums over the window
PostEfficiency(contentName, spend, gmv, earning, daysWithData) ==
  [contentName  |-> contentName,
   totalSpend   |-> spend,
   totalGmv     |-> gmv,
   totalEarning |-> earning,
   roas |-> IF RGt(spend, Zero) THEN RDiv(gmv, spend) ELSE Zero,
   roi  |-> IF RGt(spend, Zero) THEN RDiv(earning, spend) ELSE Zero,
   daysWithData |-> daysWithData,
   isNewPost    |-> daysWithData < 3,
   avgDailyGmv  |-> IF daysWithData > 0
                    THEN RDiv(gmv, Num(daysWithData)) ELSE Zero]

\* postEfficiencyByCreator.get(creatorName) || []
PostEfficiencyOf(data, creatorName, isCurrentMonth) ==
  IF ~isCurrentMonth \/ Len(data) = 0 THEN <<>>
  ELSE
    LET latestDate == SetMax({data[i].date : i \in 1..Len(data)})
        threeDaysAgo == latestDate - ProjectionWindowDays
        Sorted(posts) == SortBy(posts, RoasOf(posts), TRUE)
        Posts(recent) ==
          LET n == Len(recent)
              firsts == SelectSeq([i \in 1..n |-> i],
                                  LAMBDA i : \A j \in 1..(i - 1) :
                                     recent[j].contentName # recent[i].contentName)
              rows(c) == {i \in 1..n : recent[i].contentName = c}
              post(c) ==
                PostEfficiency(c,
                     RSum([i \in 1..n |-> recent[i].spend], rows(c)),
                     RSum([i \in 1..n |-> recent[i].gmv], rows(c)),
                     RSum([i \in 1..n |-> recent[i].earning], rows(c)),
                     Cardinality({recent[i].date : i \in rows(c)}))
          IN  [k \in 1..Len(firsts) |-> post(recent[firsts[k]].contentName)]
    IN  Sorted(Posts(SelectSeq(data, LAMBDA d : ~(d.date < threeDaysAgo)
                                              /\ d.creatorName = creatorName)))

\* mutant: a tier is reached only above its threshold
CurrentTierIndexStrict(revenue, sortedTiers) ==
  LET reached == {i \in 1..Len(sortedTiers) :
                    RGt(revenue, sortedTiers[i].threshold)}
  IN  IF reached = {} THEN 0 ELSE SetMax(reached)

\* mutant: the scan runs upward and stops at the first tier reached
CurrentTierIndexFirst(revenue, sortedTiers) ==
  LET reached == {i \in 1..Len(sortedTiers) :
                    RGe(revenue, sortedTiers[i].threshold)}
  IN  IF reached = {} THEN 0 ELSE SetMin(reached)

\* mutant: the comparison of the scan is inverted
CurrentTierIndexInverted(revenue, sortedTiers) ==
  LET reached == {i \in 1..Len(sortedTiers) :
                    RLe(revenue, sortedTiers[i].threshold)}
  IN  IF reached = {} THEN 0 ELSE SetMax(reached)

\* the index at which the downward scan of sortedTiers stops, 0 when the
\* revenue reaches no tier
CurrentTierIndex(revenue, sortedTiers) ==
  LET reached == {i \in 1..Len(sortedTiers) :
                    RGe(revenue, sortedTiers[i].threshold)}
  IN  IF reached = {} THEN 0 ELSE SetMax(reached)

\* mutant: no next tier when no tier is reached
NextTierOfNoFallback(i, sortedTiers) ==
  IF i > 0 /\ i + 1 <= Len(sortedTiers) THEN sortedTiers[i + 1] ELSE Null

\* nextTier: sortedTiers[i + 1] || null after a hit, sortedTiers[0] when
\* there is no current tier and the list is not empty
NextTierOf(i, sortedTiers) ==
  IF i > 0
  THEN IF i + 1 <= Len(sortedTiers) THEN sortedTiers[i + 1] ELSE Null
  ELSE IF Len(sortedTiers) > 0 THEN sortedTiers[1] ELSE Null

\* nextTier ? nextTier.threshold - currentShippedRevenue : 0
GapToNextTier(nextTier, revenue) ==
  IF nextTier # Null THEN RSub(nextTier.threshold, revenue) ELSE Zero

\* mutant: an aggregate roas of 0 is analysed too
HasRoasOrNone(avgRoas) == RGe(avgRoas, Zero)

\* if (avgRoas > 0)
HasRoas(avgRoas) == RGt(avgRoas, Zero)

RushAnalysisOf(nextTier, gapToNextTier, currentBonus, isCurrentMonth, posts) ==
  IF nextTier # Null /\ RGt(gapToNextTier, Zero) /\ isCurrentMonth /\ Len(posts) > 0
  THEN
    LET idx == 1..Len(posts)
        Analysis(avgRoas, avgRoi) ==
          IF HasRoas(avgRoas)
          THEN LET estimatedExtraSpend == RDiv(gapToNextTier, avgRoas)
                   extraBonus == RSub(nextTier.bonus, currentBonus)
                   extraCost == RMul(estimatedExtraSpend, RSub(Num(1), avgRoi))
                   netGain == RSub(extraBonus, extraCost)
               IN  [estimatedExtraSpend |-> estimatedExtraSpend,
                    netGain |-> netGain,
                    recommendation |->
                      IF RGt(netGain, Zero) THEN "rush"
                      ELSE IF RGt(netGain, RMul(RSub(Zero, extraBonus), Half))
                           THEN "consider" ELSE "skip",
                    avgRoas |-> avgRoas,
                    avgRoi |-> avgRoi,
                    posts |-> posts]
          ELSE Null
        Averages(totalSpend, totalGmv, totalEarning) ==
          Analysis(IF RGt(totalSpend, Zero) THEN RDiv(totalGmv, totalSpend) ELSE Zero,
                   IF RGt(totalSpend, Zero) THEN RDiv(totalEarning, totalSpend) ELSE Zero)
    IN  Averages(RSum([k \in idx |-> posts[k].totalSpend], idx),
                 RSum([k \in idx |-> posts[k].totalGmv], idx),
                 RSum([k \in idx |-> posts[k].totalEarning], idx))
  ELSE Null

\* one element of tierProgressList
TierProgressOf(creator, data, daysRemaining, isCurrentMonth) ==
  LET currentShippedRevenue == creator.currentShippedRevenue
      ProgressFor(sortedTiers, posts) ==
        LET i == CurrentTierIndex(currentShippedRevenue, sortedTiers)
            currentTier == IF i > 0 THEN sortedTiers[i] ELSE Null
            nextTier == NextTierOf(i, sortedTiers)
            currentBonus == IF currentTier # Null THEN currentTier.bonus ELSE Zero
            gapToNextTier == GapToNextTier(nextTier, currentShippedRevenue)
            dailyGmvNeeded ==
              IF nextTier # Null /\ daysRemaining > 0
              THEN RDiv(gapToNextTier, Num(daysRemaining)) ELSE Zero
        IN  [creatorName    |-> creator.creatorName,
             currentRevenue |-> currentShippedRevenue,
             currentTier    |-> currentTier,
             currentBonus   |-> currentBonus,
             nextTier       |-> nextTier,
             gapToNextTier  |-> gapToNextTier,
             daysRemaining  |-> daysRemaining,
             dailyGmvNeeded |-> dailyGmvNeeded,
             rushAnalysis   |-> RushAnalysisOf(nextTier, gapToNextTier, currentBonus,
                                               isCurrentMonth, posts)]
  IN  ProgressFor(SortBy(creator.tiers, ThresholdsOf(creator.tiers), FALSE),
                  PostEfficiencyOf(data, creator.creatorName, isCurrentMonth))

TierProgressList(tiersOfCreators, data, month, today) ==
  LET filteredTierData == FilteredTierData(tiersOfCreators, month)
      isCurrentMonth == IsCurrentMonth(month, today)
      daysRemaining == TrackerDaysRemaining(month, today)
  IN  [k \in 1..Len(filteredTierData) |->
         TierProgressOf(filteredTierData[k], data, daysRemaining, isCurrentMonth)]

-----------------------------------------------------------------------------
(* TierRewardsTracker: CreatorTierCard and RushAnalysisPanel *)

\* the props of the panel the card of `progress` renders, Null when the
\* card renders no panel: isCurrentMonth && rushAnalysis && nextTier
CardPanelProps(progress, daysRemaining, isCurrentMonth) ==
  IF isCurrentMonth /\ progress.rushAnalysis # Null /\ progress.nextTier # Null
  THEN [analysis      |-> progress.rushAnalysis,
        bonusIncrease |-> RSub(progress.nextTier.bonus, progress.currentBonus),
        gapToNextTier |-> progress.gapToNextTier,
        daysRemaining |-> daysRemaining]
  ELSE Null

\* mutant: the share of a zero total spend is 0
SpendRatioZeroFallback(p, totalCurrentSpend, postCount) ==
  IF RGt(totalCurrentSpend, Zero) THEN RDiv(p.totalSpend, totalCurrentSpend)
  ELSE Zero

\* totalCurrentSpend > 0 ? p.totalSpend / totalCurrentSpend : 1 / posts.length
SpendRatio(p, totalCurrentSpend, postCount) ==
  IF RGt(totalCurrentSpend, Zero) THEN RDiv(p.totalSpend, totalCurrentSpend)
  ELSE RDiv(Num(1), Num(postCount))

\* mutant: the shortfall is not clamped at 0
ShortfallUnclamped(gapToNextTier, totalProjectedGmv) ==
  RSub(gapToNextTier, totalProjectedGmv)

\* Math.max(0, gapToNextTier - totalProjectedGmv)
Shortfall(gapToNextTier, totalProjectedGmv) ==
  RMax(Zero, RSub(gapToNextTier, totalProjectedGmv))

\* posts.map: the projection of one post, no extra spend allocated yet
PostProjection(p, daysRemaining) ==
  LET avgDailySpend == IF p.daysWithData > 0
                       THEN RDiv(p.totalSpend, Num(p.daysWithData)) ELSE Zero
  IN  [post           |-> p,
       projectedGmv   |-> RMul(p.avgDailyGmv, Num(daysRemaining)),
       projectedSpend |-> RMul(avgDailySpend, Num(daysRemaining)),
       spendRatio     |-> Null,
       extraSpend     |-> Zero,
       extraGmv       |-> Zero,
       extraCost      |-> Zero]

\* the body of postsWithProjection.forEach under shortfall > 0
AllocateExtra(q, shortfall, totalCurrentSpend, postCount) ==
  LET Extra(spendRatio, allocatedGmv, extraSpend) ==
        [q EXCEPT !.spendRatio = spendRatio,
                  !.extraGmv   = allocatedGmv,
                  !.extraSpend = extraSpend,
                  !.extraCost  = RMul(extraSpend, RSub(Num(1), q.post.roi))]
      WithGmv(spendRatio, allocatedGmv) ==
        Extra(spendRatio, allocatedGmv,
              IF RGt(q.post.roas, Zero) THEN RDiv(allocatedGmv, q.post.roas)
              ELSE Zero)
      WithRatio(spendRatio) == WithGmv(spendRatio, RMul(shortfall, spendRatio))
  IN  IF RGt(shortfall, Zero)
      THEN WithRatio(SpendRatio(q.post, totalCurrentSpend, postCount))
      ELSE q

\* the totals the panel shows for the allocated posts
PanelTotals(postsWithProjection, totalProjectedGmv, shortfall, bonusIncrease) ==
  LET idx == 1..Len(postsWithProjection)
      Totals(totalExtraSpend, totalExtraCost) ==
        [postsWithProjection |-> postsWithProjection,
         totalProjectedGmv   |-> totalProjectedGmv,
         totalProjectedSpend |->
           RSum([k \in idx |-> postsWithProjection[k].projectedSpend], idx),
         shortfall           |-> shortfall,
         canReachNaturally   |-> shortfall = Zero,
         totalExtraSpend     |-> totalExtraSpend,
         totalExtraCost      |-> totalExtraCost,
         netGain             |-> RSub(bonusIncrease, totalExtraCost),
         worthRushing        |-> RGt(RSub(bonusIncrease, totalExtraCost), Zero)]
  IN  Totals(RSum([k \in idx |-> postsWithProjection[k].extraSpend], idx),
             RSum([k \in idx |-> postsWithProjection[k].extraCost], idx))

\* the values RushAnalysisPanel computes from its props
RushAnalysisPanel(analysis, bonusIncrease, gapToNextTier, daysRemaining) ==
  LET posts == analysis.posts
      idx == 1..Len(posts)
      totalCurrentSpend == RSum([k \in idx |-> posts[k].totalSpend], idx)
      Allocated(projected, totalProjectedGmv, shortfall) ==
        PanelTotals([k \in idx |-> AllocateExtra(projected[k], shortfall,
                                                 totalCurrentSpend, Len(posts))],
                    totalProjectedGmv, shortfall, bonusIncrease)
      WithTotal(projected, totalProjectedGmv) ==
        Allocated(projected, totalProjectedGmv,
                  Shortfall(gapToNextTier, totalProjectedGmv))
      Projected(projected) ==
        WithTotal(projected,
                  RSum([k \in idx |-> projected[k].projectedGmv], idx))
  IN  Projected([k \in idx |-> PostProjection(posts[k], daysRemaining)])

-----------------------------------------------------------------------------
(* App: the load effect *)

\* the four fetches of Promise.all, in order
Fetches ==
  {"fetchData", "fetchBonusCalData", "fetchPostLinks", "fetchCreatorBonusCalData"}

\* mutant: every fetch rethrows its error
FetchOutcomeRethrows(fetch, ok) ==
  IF ok THEN "fulfilled" ELSE "rejected"

\* how the promise of a fetch settles: fetchData rethrows its error, the
\* other three catch theirs and return an empty result
FetchOutcome(fetch, ok) ==
  IF ok THEN "fulfilled"
  ELSE IF fetch = "fetchData" THEN "rejected" ELSE "empty"

\* Promise.all is fulfilled when every promise is fulfilled
AllFulfilled(promise) ==
  \A f \in Fetches : promise[f] \in {"fulfilled", "empty"}

\* Promise.all is rejected as soon as one promise is rejected
SomeRejected(promise) ==
  \E f \in Fetches : promise[f] = "rejected"

\* useState(true), useState(null) and the four pending promises; error is
\* FALSE for null and TRUE once setError has stored its message
PendingApp ==
  [promise |-> [f \in Fetches |-> "pending"],
   loading |-> TRUE,
   error   |-> FALSE]

\* the app after a load without failure
LoadedApp ==
  [promise |-> [f \in Fetches |-> "fulfilled"],
   loading |-> FALSE,
   error   |-> FALSE]

-----------------------------------------------------------------------------
(* Bounds and input sets *)

\* spend, earning, gmv and commission amounts range over 0..MaxAmt
MaxAmt == 1
\* tier lists have at most MaxTiers tiers (the sheet has five tier columns)
MaxTiers == 2
\* tier thresholds range over 1..MaxThreshold (rows keep threshold > 0 only)
MaxThreshold == 3
\* tier bonuses range over -1..MaxBonus (parseCurrency keeps a minus sign)
MaxBonus == 1

Amounts == {Num(a) : a \in 0..MaxAmt}
Revenues == 0..(MaxThreshold + 1)

TierNames == <<"Tier 1", "Tier 2", "Tier 3", "Tier 4", "Tier 5">>

TierLevels == [threshold : {Num(t) : t \in 1..MaxThreshold},
               bonus : {Num(b) : b \in (0 - 1)..MaxBonus}]

\* tier lists in any order of thresholds, named by column
TierLists ==
  UNION {{[k \in 1..n |-> [threshold |-> f[k].threshold, bonus |-> f[k].bonus,
                           name |-> TierNames[k]]] : f \in [1..n -> TierLevels]}
         : n \in 0..MaxTiers}

Tier(k, threshold, bonus) ==
  [threshold |-> Num(threshold), bonus |-> Num(bonus), name |-> TierNames[k]]

\* the record of one sheet row
AdRecord(day, creator, content, spend, gmv, earning) ==
  [date |-> day, creatorName |-> creator, contentName |-> content,
   spend |-> spend, gmv |-> gmv, earning |-> earning]

\* a row that may be absent from the sheet
Optional(rows) == {<<>>} \cup {<<r>> : r \in rows}

BonusCal(creator, total, organic, commissionAds, tiers) ==
  [creatorName |-> creator, dataMonth |-> 1,
   totalShippedRevenue |-> Num(total), shippedRevOrganic |-> Num(organic),
   shippedRevAds |-> Num(total - organic), commissionOrganic |-> Zero,
   commissionAds |-> commissionAds, tiers |-> tiers]

-----------------------------------------------------------------------------
(* Initial states *)

NoResults ==
  /\ earningsSummary = Null
  /\ payments = <<>>
  /\ emails = <<>>
  /\ tierProgressList = <<>>
  /\ processed = <<>>
  /\ rushPanel = Null
  /\ app = LoadedApp
  /\ pc = [earnings |-> "input", tracker |-> "input", fetch |-> "input",
           card |-> "input"]

\* Earnings tab: January rows of creators c1 and c2 (sorted by date, as
\* fetchData leaves them), an optional bonus cal snapshot of c1, and the
\* arguments of the settlement call
SettlementTierLists ==
  {<<>>, <<Tier(1, 1, 1)>>, <<Tier(1, 2, 2), Tier(2, 1, 1)>>,
   <<Tier(1, 1, 1), Tier(2, 2, 0)>>}

SettlementRevenues == {<<0, 0>>, <<1, 0>>, <<2, 0>>, <<2, 1>>}

SettlementCalls ==
  {[start |-> 1, end |-> 31, monthly |-> TRUE],
   [start |-> 1, end |-> 31, monthly |-> FALSE],
   [start |-> 11, end |-> 17, monthly |-> FALSE],
   [start |-> 1, end |-> 59, monthly |-> FALSE]}

InitSettlement ==
  /\ \E a \in Optional({AdRecord(10, "c1", "p1", Num(MaxAmt), Num(MaxAmt), Num(MaxAmt))}),
        b \in Optional({AdRecord(14, "c1", "p1", x, y, y) : x \in Amounts, y \in Amounts}),
        c \in Optional({AdRecord(14, "c2", "p2", x, y, y) : x \in Amounts, y \in Amounts}) :
        adData = a \o b \o c
  /\ bonusCalData \in
       {<<>>} \cup {<<BonusCal("c1", r[1], r[2], ca, t)>> :
                      r \in SettlementRevenues, ca \in Amounts,
                      t \in SettlementTierLists}
  /\ \E call \in SettlementCalls :
        /\ startDate = call.start
        /\ endDate = call.end
        /\ isMonthlyPeriod = call.monthly
  /\ now \in {15, 31}
  /\ tierData = <<>>
  /\ selectedMonth = 0
  /\ sheetRows = <<>>
  /\ panelProps = Null
  /\ NoResults

\* Tier tracker: the bonus cal rows of creators c1 and c2, who share one
\* tier schedule; the row of c1 is also the settlement's snapshot, its
\* organic revenue being the revenue of c2
TierRow(creator, revenue, tiers) ==
  [creatorName |-> creator, dataMonth |-> 1,
   currentShippedRevenue |-> Num(revenue), tiers |-> tiers]

InitTracker ==
  /\ \E r \in Revenues, o \in Revenues, t \in TierLists :
        /\ o <= r
        /\ tierData = <<TierRow("c1", r, t), TierRow("c2", o, t)>>
        /\ bonusCalData = <<BonusCal("c1", r, o, Num(1), t)>>
  /\ adData = <<>>
  /\ startDate = 1
  /\ endDate = 31
  /\ isMonthlyPeriod = TRUE
  /\ now = 15
  /\ selectedMonth = 1
  /\ sheetRows = <<>>
  /\ panelProps = Null
  /\ NoResults

\* Sheet: up to three rows of creator c1, out of date order, with an
\* unparsable date, and with amounts that parseCurrency leaves negative
SheetAmounts == {Num(a) : a \in (0 - 1)..MaxAmt}

SheetRow(days, contents) ==
  Optional({AdRecord(day, "c1", content, x, y, y) :
              day \in days, content \in contents,
              x \in SheetAmounts, y \in SheetAmounts})

InitSheet ==
  /\ \E a \in SheetRow({14, 0}, {"p1"}),
        b \in SheetRow({10}, {"p1", "p2"}),
        c \in SheetRow({10, 14}, {"p1"}) :
        sheetRows = a \o b \o c
  /\ adData = <<>>
  /\ bonusCalData = <<>>
  /\ startDate = 1
  /\ endDate = 31
  /\ isMonthlyPeriod = FALSE
  /\ now = 15
  /\ tierData = <<>>
  /\ selectedMonth = 0
  /\ panelProps = Null
  /\ NoResults

\* Rush analysis: the tier rows of creators c1 and c2 and the ad rows of two
\* posts of c1 in the last three days of the data, on the last but one day
\* of January (current month) or in February (January is then historical)
RushTierLists ==
  {<<>>, <<Tier(1, 2, 1)>>, <<Tier(1, 3, 1), Tier(2, 1, 0)>>,
   <<Tier(1, 1, 1), Tier(2, 3, 0)>>}

\* the (gmv, earning) of an ad row: no sale, a sale without commission, a
\* sale with commission
Yields == {<<0, 0>>, <<1, 0>>, <<1, 1>>}

RushRow(day, content) ==
  Optional({AdRecord(day, "c1", content, x, Num(y[1]), Num(y[2])) :
              x \in Amounts, y \in Yields})

InitRush ==
  /\ \E a \in RushRow(28, "p1"),
        b \in RushRow(29, "p2"),
        c \in Optional({AdRecord(29, "c1", "p1", Num(1), Num(1), Num(1))}),
        d \in Optional({AdRecord(20, "c1", "p1", Num(1), Num(1), Num(1))}) :
        /\ adData = d \o a \o b \o c
        /\ sheetRows = adData
  /\ \E r \in 0..2, t \in RushTierLists :
        tierData = <<TierRow("c1", r, t), TierRow("c2", 0, t)>>
  /\ bonusCalData = <<>>
  /\ startDate = 1
  /\ endDate = 31
  /\ isMonthlyPeriod \in BOOLEAN
  /\ now \in {30, 46}
  /\ selectedMonth = 1
  /\ panelProps = Null
  /\ NoResults

\* Rush panel: the props of RushAnalysisPanel drawn directly, one or two
\* posts in descending order of roas
PanelPosts(contentName) ==
  {PostEfficiency(contentName, x, Num(y[1]), Num(y[2]), n) :
     x \in Amounts, y \in Yields, n \in 1..2}

PanelPostLists ==
  {<<p>> : p \in PanelPosts("p1")}
    \cup {SortBy(<<p, q>>, RoasOf(<<p, q>>), TRUE) :
            p \in PanelPosts("p1"), q \in PanelPosts("p2")}

InitPanel ==
  /\ \E posts \in PanelPostLists, gap \in 1..MaxThreshold,
        bonusIncrease \in (0 - 1)..MaxBonus, daysRemaining \in 1..2 :
        panelProps = [analysis      |-> [posts |-> posts],
                      bonusIncrease |-> Num(bonusIncrease),
                      gapToNextTier |-> Num(gap),
                      daysRemaining |-> daysRemaining]
  /\ adData = <<>>
  /\ bonusCalData = <<>>
  /\ startDate = 1
  /\ endDate = 31
  /\ isMonthlyPeriod = TRUE
  /\ now = 30
  /\ tierData = <<>>
  /\ selectedMonth = 1
  /\ sheetRows = <<>>
  /\ earningsSummary = Null
  /\ payments = <<>>
  /\ emails = <<>>
  /\ tierProgressList = <<>>
  /\ processed = <<>>
  /\ rushPanel = Null
  /\ app = LoadedApp
  /\ pc = [earnings |-> "rendered", tracker |-> "tracked", fetch |-> "fetched",
           card |-> "shown"]

\* Projection: creators c1 and c2 both have ad rows at the end of January,
\* c1 has a bonus snapshot, and the tracker shows January in mid January,
\* on the last but one day of January, or in February
InitProjection ==
  /\ \E a \in Optional({AdRecord(day, "c1", "p1", Num(1), y, y) :
                          day \in {26, 27}, y \in Amounts}),
        b \in Optional({AdRecord(28, "c1", c, Num(1), y, y) :
                          c \in {"p1", "p2"}, y \in Amounts}),
        c \in Optional({AdRecord(29, "c1", "p1", Num(1), Num(1), Num(1))}),
        d \in Optional({AdRecord(30, "c1", "p1", Num(1), Num(1), Num(1))}),
        e \in Optional({AdRecord(30, "c2", "p3", Num(1), y, y) : y \in Amounts}) :
        adData = a \o b \o c \o d \o e
  /\ \E r \in 0..1, t \in RushTierLists :
        /\ tierData = <<TierRow("c1", r, t), TierRow("c2", 0, t)>>
        /\ bonusCalData = <<BonusCal("c1", r, 0, Num(1), t)>>
  /\ startDate = 1
  /\ endDate = 31
  /\ isMonthlyPeriod = TRUE
  /\ now \in {15, 30, 46}
  /\ selectedMonth = 1
  /\ sheetRows = <<>>
  /\ panelProps = Null
  /\ NoResults

\* Load: the app is mounted, the four fetches are pending, and the sheet
\* holds at most one row
InitLoad ==
  /\ sheetRows \in SheetRow({10}, {"p1"})
  /\ adData = <<>>
  /\ bonusCalData = <<>>
  /\ startDate = 1
  /\ endDate = 31
  /\ isMonthlyPeriod = FALSE
  /\ now = 15
  /\ tierData = <<>>
  /\ selectedMonth = 0
  /\ panelProps = Null
  /\ earningsSummary = Null
  /\ payments = <<>>
  /\ emails = <<>>
  /\ tierProgressList = <<>>
  /\ processed = <<>>
  /\ rushPanel = Null
  /\ app = PendingApp
  /\ pc = [earnings |-> "input", tracker |-> "input", fetch |-> "input",
           card |-> "input"]

Init ==
  \/ InitLoad
  \/ InitSettlement
  \/ InitTracker
  \/ InitSheet
  \/ InitRush
  \/ InitPanel
  \/ InitProjection

-----------------------------------------------------------------------------
(* Actions *)

\* EarningsTab calls calculateCreatorSettlements
Settle ==
  /\ pc.earnings = "input"
  /\ earningsSummary' =
       calculateCreatorSettlements(adData, bonusCalData, startDate, endDate,
                                   isMonthlyPeriod, now)
  /\ pc' = [pc EXCEPT !.earnings = "settled"]
  /\ UNCHANGED <<adData, bonusCalData, startDate, endDate, isMonthlyPeriod, now,
                 payments, emails, trackerVars, enrichVars, panelVars, loadVars>>

\* EarningsTab renders the payments table and the settlement emails
Render ==
  /\ pc.earnings = "settled"
  /\ payments' = PaymentsTable(earningsSummary, isMonthlyPeriod, bonusCalData)
  /\ emails' = SettlementEmails(adData, bonusCalData, now)
  /\ pc' = [pc EXCEPT !.earnings = "rendered"]
  /\ UNCHANGED <<adData, bonusCalData, startDate, endDate, isMonthlyPeriod, now,
                 earningsSummary, trackerVars, enrichVars, panelVars, loadVars>>

\* TierRewardsTracker computes tierProgressList
TrackTiers ==
  /\ pc.tracker = "input"
  /\ tierProgressList' = TierProgressList(tierData, adData, selectedMonth, now)
  /\ pc' = [pc EXCEPT !.tracker = "tracked"]
  /\ UNCHANGED <<adData, bonusCalData, startDate, endDate, isMonthlyPeriod, now,
                 earningsSummary, payments, emails, tierData, selectedMonth,
                 enrichVars, panelVars, loadVars>>

\* App loads the sheet: fetchData
FetchData ==
  /\ pc.fetch = "input"
  /\ processed' = fetchData(sheetRows)
  /\ pc' = [pc EXCEPT !.fetch = "fetched"]
  /\ UNCHANGED <<now, settleVars, trackerVars, sheetRows, panelVars, loadVars>>

\* TierRewardsTracker renders the card of the selected creator
CreatorTierCard ==
  /\ pc.tracker = "tracked"
  /\ pc.card = "input"
  /\ \E k \in 1..Len(tierProgressList) :
        panelProps' = CardPanelProps(tierProgressList[k],
                                     TrackerDaysRemaining(selectedMonth, now),
                                     IsCurrentMonth(selectedMonth, now))
  /\ pc' = [pc EXCEPT !.card = "shown"]
  /\ UNCHANGED <<now, settleVars, trackerVars, enrichVars, rushPanel, loadVars>>

\* the card renders RushAnalysisPanel with its props
RenderRushPanel ==
  /\ pc.card = "shown"
  /\ panelProps # Null
  /\ rushPanel' = RushAnalysisPanel(panelProps.analysis, panelProps.bonusIncrease,
                                    panelProps.gapToNextTier,
                                    panelProps.daysRemaining)
  /\ pc' = [pc EXCEPT !.card = "rendered"]
  /\ UNCHANGED <<now, settleVars, trackerVars, enrichVars, panelProps,
                 loadVars>>

\* one of the four fetches settles, with or without a failure
SettleFetch ==
  \E f \in Fetches, ok \in BOOLEAN :
    /\ app.promise[f] = "pending"
    /\ app' = [app EXCEPT !.promise[f] = FetchOutcome(f, ok)]
    /\ processed' = IF f = "fetchData" /\ ok THEN fetchData(sheetRows)
                    ELSE processed
    /\ UNCHANGED <<now, settleVars, trackerVars, sheetRows, panelVars, pc>>

\* the .then callback of Promise.all: the state is set, loading ends
LoadThen ==
  /\ app.loading
  /\ AllFulfilled(app.promise)
  /\ app' = [app EXCEPT !.loading = FALSE]
  /\ UNCHANGED <<now, settleVars, trackerVars, enrichVars, panelVars, pc>>

\* the .catch callback of Promise.all: the error is set, loading ends
LoadCatch ==
  /\ app.loading
  /\ SomeRejected(app.promise)
  /\ app' = [app EXCEPT !.error = TRUE, !.loading = FALSE]
  /\ UNCHANGED <<now, settleVars, trackerVars, enrichVars, panelVars, pc>>

Next ==
  \/ SettleFetch
  \/ LoadThen
  \/ LoadCatch
  \/ Settle
  \/ Render
  \/ TrackTiers
  \/ FetchData
  \/ CreatorTierCard
  \/ RenderRushPanel

Spec == Init /\ [][Next]_vars

NextSettlement == Settle \/ Render
SpecSettlement == InitSettlement /\ [][NextSettlement]_vars

NextSheet == FetchData
SpecSheet == InitSheet /\ [][NextSheet]_vars

NextTracker == TrackTiers \/ Settle
SpecTracker == InitTracker /\ [][NextTracker]_vars

InitRushOrPanel == InitRush \/ InitPanel
NextRush ==
  \/ FetchData
  \/ Settle
  \/ TrackTiers
  \/ CreatorTierCard
  \/ RenderRushPanel
SpecRush == InitRushOrPanel /\ [][NextRush]_vars

NextProjection == Settle \/ TrackTiers

\* the callbacks of a settled Promise.all run: microtasks are not starved
NextLoad == SettleFetch \/ LoadThen \/ LoadCatch
SpecLoad ==
  /\ InitLoad
  /\ [][NextLoad]_vars
  /\ WF_vars(LoadThen)
  /\ WF_vars(LoadCatch)
SpecProjection == InitProjection /\ [][NextProjection]_vars

-----------------------------------------------------------------------------
(* Properties *)

Settled == pc.earnings # "input"
Rendered == pc.earnings = "rendered"
Tracked == pc.tracker = "tracked"

Settlements == IF Settled THEN earningsSummary.creatorSettlements ELSE <<>>

HasSnapshot(creator) ==
  \E k \in 1..Len(bonusCalData) : bonusCalData[k].creatorName = creator

SnapshotOf(creator) ==
  bonusCalData[CHOOSE k \in 1..Len(bonusCalData) :
                 bonusCalData[k].creatorName = creator]

\* the rows of a creator inside [startDate, endDate]
WindowRows(creator) ==
  {i \in 1..Len(adData) : /\ adData[i].creatorName = creator
                          /\ startDate <= adData[i].date
                          /\ adData[i].date <= endDate}

WindowSpend(creator) ==
  RSum([i \in 1..Len(adData) |-> adData[i].spend], WindowRows(creator))

WindowEarning(creator) ==
  RSum([i \in 1..Len(adData) |-> adData[i].earning], WindowRows(creator))

ClaimedRewardsM1(bonusDiff, profitable) ==
  IF profitable THEN RMul(Half, bonusDiff) ELSE bonusDiff

ClaimedCommissionM2(profit, adSpend, bonusDiff, commissionEarning, profitable) ==
  IF profitable
  THEN RSub(RAdd(RMul(Half, profit), adSpend), RMul(Half, bonusDiff))
  ELSE commissionEarning

\* C3: the payments table and the settlement email derive rewardsPaymentM1
\* and commissionPaymentM2 from the settlement's isProfitable flag
\* (totalProfit > 0): bonusDiff/2 and totalProfit/2 + adSpend - bonusDiff/2
\* when profitable, bonusDiff and commissionEarning otherwise, also at
\* totalProfit = 0.
C3_PaymentsFollowFlag ==
  Rendered =>
    /\ \A k \in 1..Len(payments) :
         LET s == Settlements[k]
             row == payments[k]
         IN  /\ row.paymentOnBonus = ClaimedRewardsM1(s.bonusDiff, s.isProfitable)
             /\ row.paymentOnCommission =
                  ClaimedCommissionM2(s.profit, s.adSpend, s.bonusDiff,
                                      s.commissionEarning, s.isProfitable)
    /\ \A k \in 1..Len(emails) :
         LET e == emails[k]
             profitable == RGt(e.profit, Zero)
         IN  /\ e.rewardsPayment = ClaimedRewardsM1(e.bonusDiff, profitable)
             /\ e.commissionPayment =
                  ClaimedCommissionM2(e.profit, e.adSpend, e.bonusDiff,
                                      e.commissionEarning, profitable)

C5_CommissionSource ==
  \A k \in 1..Len(Settlements) :
    LET s == Settlements[k]
    IN  HasSnapshot(s.creatorName) =>
          s.commissionEarning =
            IF isMonthlyPeriod THEN SnapshotOf(s.creatorName).commissionAds
            ELSE WindowEarning(s.creatorName)

Creators == {adData[i].creatorName : i \in 1..Len(adData)}

SettlementsOf(creator) ==
  {k \in 1..Len(Settlements) : Settlements[k].creatorName = creator}

TierSet(tiers) == {tiers[i] : i \in 1..Len(tiers)}

ReachedTiers(revenue, tiers) ==
  {u \in TierSet(tiers) : RLe(u.threshold, revenue)}

\* the reached tiers of greatest threshold
HighestReached(revenue, tiers) ==
  {u \in ReachedTiers(revenue, tiers) :
     \A v \in ReachedTiers(revenue, tiers) : RLe(v.threshold, u.threshold)}

BonusOfHighestReached(bonus, revenue, tiers) ==
  IF ReachedTiers(revenue, tiers) = {} THEN bonus = Zero
  ELSE \E u \in HighestReached(revenue, tiers) : u.bonus = bonus

TierRowOf(creator) ==
  tierData[CHOOSE k \in 1..Len(tierData) : tierData[k].creatorName = creator]

Progress == IF Tracked THEN tierProgressList ELSE <<>>

\* the revenue the settlement projects for the month end
ProjectedTotalRevenue(snapshot) ==
  RAdd(snapshot.totalShippedRevenue,
       calculateProjectedGmv(adData, snapshot.creatorName, DaysRemaining(now)))

\* C7: whatever the input order of the tier list, the current tier is a
\* tier of greatest threshold <= revenue (a threshold equal to the revenue
\* is reached) and null when the revenue is below every threshold; the
\* tier bonuses of a settlement are those of such a tier, 0 when none.
C7_TierResolution ==
  /\ \A k \in 1..Len(Progress) :
       LET p == Progress[k]
           row == TierRowOf(p.creatorName)
       IN  /\ IF ReachedTiers(row.currentShippedRevenue, row.tiers) = {}
              THEN p.currentTier = Null
              ELSE p.currentTier \in
                     HighestReached(row.currentShippedRevenue, row.tiers)
           /\ p.currentBonus =
                IF p.currentTier = Null THEN Zero ELSE p.currentTier.bonus
  /\ \A k \in 1..Len(Settlements) :
       LET s == Settlements[k]
       IN  HasSnapshot(s.creatorName) =>
             LET b == SnapshotOf(s.creatorName)
             IN  /\ BonusOfHighestReached(s.organicTierBonus,
                                          b.shippedRevOrganic, b.tiers)
                 /\ BonusOfHighestReached(s.totalTierBonus,
                                          ProjectedTotalRevenue(b), b.tiers)

\* a list given with the higher tier first, the revenue exactly on the
\* higher threshold: tracker and settlement resolve the higher tier
C7_Witness ==
  /\ Tracked
  /\ Settled
  /\ \E k \in 1..Len(tierProgressList) :
       LET p == tierProgressList[k]
           tiers == TierRowOf(p.creatorName).tiers
       IN  /\ Len(tiers) = 2
           /\ RGt(tiers[1].threshold, tiers[2].threshold)
           /\ tiers[1].bonus # tiers[2].bonus
           /\ p.currentRevenue = tiers[1].threshold
           /\ p.currentTier = tiers[1]
           /\ \E j \in 1..Len(Settlements) :
                /\ Settlements[j].creatorName = p.creatorName
                /\ Settlements[j].totalTierBonus = tiers[1].bonus

\* C8: the next tier is the tier right after the current one in ascending
\* threshold order: the lowest tier when there is no current tier, null
\* when the current tier is the highest or the list is empty.
C8_NextTier ==
  \A k \in 1..Len(Progress) :
    LET p == Progress[k]
        all == TierSet(TierRowOf(p.creatorName).tiers)
        above == IF p.currentTier = Null THEN all
                 ELSE {u \in all : RGt(u.threshold, p.currentTier.threshold)}
    IN  IF above = {} THEN p.nextTier = Null
        ELSE /\ p.nextTier \in above
             /\ \A u \in above : RLe(p.nextTier.threshold, u.threshold)

\* no tier reached: the next tier is the lower tier of a list given with
\* the higher tier first; and a revenue on the top tier has no next tier
C8_Witness ==
  /\ Tracked
  /\ \E k \in 1..Len(tierProgressList) :
       LET p == tierProgressList[k]
           tiers == TierRowOf(p.creatorName).tiers
       IN  /\ Len(tiers) = 2
           /\ RGt(tiers[1].threshold, tiers[2].threshold)
           /\ p.currentTier = Null
           /\ p.nextTier = tiers[2]
  /\ \E k \in 1..Len(tierProgressList) :
       /\ tierProgressList[k].currentTier # Null
       /\ tierProgressList[k].nextTier = Null

\* C9: gapToNextTier = max(0, nextTier.threshold - currentRevenue) when
\* there is a next tier and 0 otherwise; it is never negative.
C9_GapToNextTier ==
  \A k \in 1..Len(Progress) :
    LET p == Progress[k]
    IN  /\ p.gapToNextTier =
             IF p.nextTier # Null
             THEN RMax(Zero, RSub(p.nextTier.threshold, p.currentRevenue))
             ELSE Zero
        /\ RGe(p.gapToNextTier, Zero)

\* a revenue above the lowest tier and below the next one
C9_Witness ==
  /\ Tracked
  /\ \E k \in 1..Len(tierProgressList) :
       LET p == tierProgressList[k]
       IN  /\ p.currentTier # Null
           /\ p.nextTier # Null
           /\ RGt(p.currentRevenue, p.currentTier.threshold)
           /\ p.gapToNextTier = RSub(p.nextTier.threshold, p.currentRevenue)
           /\ RGt(p.gapToNextTier, Zero)

\* no bonus is negative and a higher threshold never carries a smaller
\* bonus (tiers of one threshold carry one bonus)
BonusesFollowThresholds(tiers) ==
  \A u \in TierSet(tiers), v \in TierSet(tiers) :
    /\ RGe(u.bonus, Zero)
    /\ RLe(u.threshold, v.threshold) => RLe(u.bonus, v.bonus)

\* the bonuses resolved for two revenues of one tier list are ordered as
\* the revenues are: tracker rows pairwise, and a settlement's organic
\* and projected total revenue
BonusOrderedByRevenue(anyTierList) ==
  /\ \A j \in 1..Len(Progress), k \in 1..Len(Progress) :
       LET p == Progress[j]
           q == Progress[k]
           tiers == TierRowOf(p.creatorName).tiers
       IN  (/\ tiers = TierRowOf(q.creatorName).tiers
            /\ anyTierList \/ BonusesFollowThresholds(tiers)
            /\ RLe(p.currentRevenue, q.currentRevenue))
             => RLe(p.currentBonus, q.currentBonus)
  /\ \A k \in 1..Len(Settlements) :
       LET s == Settlements[k]
       IN  HasSnapshot(s.creatorName) =>
             LET b == SnapshotOf(s.creatorName)
             IN  (/\ anyTierList \/ BonusesFollowThresholds(b.tiers)
                  /\ RLe(b.shippedRevOrganic, ProjectedTotalRevenue(b)))
                   => RLe(s.organicTierBonus, s.totalTierBonus)

\* C10 as stated: for any tier list, the bonus of the resolved current
\* tier (0 when none) never decreases as the revenue increases.
C10_BonusMonotoneAnyList == BonusOrderedByRevenue(TRUE)

\* C10 amended: for a tier list whose bonuses are non-negative and do not
\* decrease as the thresholds increase, the bonus of the resolved current
\* tier (0 when none) never decreases as the revenue increases.
C10_BonusMonotone == BonusOrderedByRevenue(FALSE)

\* two tiers of increasing bonus, given with the higher tier first; the
\* two revenues resolve to different bonuses in tracker and settlement
C10_Witness ==
  /\ Tracked
  /\ Settled
  /\ Len(tierProgressList) = 2
  /\ LET p == tierProgressList[1]
         q == tierProgressList[2]
         tiers == TierRowOf(p.creatorName).tiers
     IN  /\ Len(tiers) = 2
         /\ RGt(tiers[1].threshold, tiers[2].threshold)
         /\ BonusesFollowThresholds(tiers)
         /\ RLt(q.currentRevenue, p.currentRevenue)
         /\ RLt(q.currentBonus, p.currentBonus)
  /\ \E k \in 1..Len(Settlements) :
       RLt(Settlements[k].organicTierBonus, Settlements[k].totalTierBonus)

\* every record's GMV is non-negative
NonNegativeGmv == \A i \in 1..Len(adData) : RGe(adData[i].gmv, Zero)

\* the bonus diff of every settlement of a snapshot whose total shipped
\* revenue is at least its organic revenue is totalTierBonus -
\* organicTierBonus and is not negative
BonusDiffNonNegative(anyTierList) ==
  \A k \in 1..Len(Settlements) :
    LET s == Settlements[k]
    IN  (/\ HasSnapshot(s.creatorName)
         /\ NonNegativeGmv
         /\ RGe(SnapshotOf(s.creatorName).totalShippedRevenue,
                SnapshotOf(s.creatorName).shippedRevOrganic)
         /\ anyTierList \/ BonusesFollowThresholds(SnapshotOf(s.creatorName).tiers))
          => /\ s.bonusDiff = RSub(s.totalTierBonus, s.organicTierBonus)
             /\ RGe(s.bonusDiff, Zero)

\* C11 as stated: for every settlement whose snapshot has
\* totalShippedRevenue >= shippedRevOrganic (and non-negative GMV in the
\* records), bonusDiff = totalTierBonus - organicTierBonus is >= 0.
C11_BonusDiffNonNegativeAnyList == BonusDiffNonNegative(TRUE)

\* C11 amended: for every settlement whose snapshot has
\* totalShippedRevenue >= shippedRevOrganic (and non-negative GMV in the
\* records) and tier bonuses that are non-negative and do not decrease as
\* the thresholds increase, bonusDiff = totalTierBonus - organicTierBonus
\* is >= 0.
C11_BonusDiffNonNegative == BonusDiffNonNegative(FALSE)

\* a settlement whose projected GMV lifts the snapshot's revenue to a tier
\* of higher bonus than the organic revenue reaches
C11_Witness ==
  \E k \in 1..Len(Settlements) :
    LET s == Settlements[k]
    IN  /\ HasSnapshot(s.creatorName)
        /\ Len(SnapshotOf(s.creatorName).tiers) = 2
        /\ BonusesFollowThresholds(SnapshotOf(s.creatorName).tiers)
        /\ RGt(ProjectedTotalRevenue(SnapshotOf(s.creatorName)),
               SnapshotOf(s.creatorName).totalShippedRevenue)
        /\ RGt(s.organicTierBonus, Zero)
        /\ RGt(s.bonusDiff, Zero)

Fetched == pc.fetch = "fetched"

\* the positions of the enriched records of one content, up to position k
SameContentUpTo(k) ==
  {j \in 1..k : processed[j].contentName = processed[k].contentName}

\* the spend and the earning of every sheet row are non-negative
NonNegativeAmounts ==
  \A i \in 1..Len(sheetRows) :
    RGe(sheetRows[i].spend, Zero) /\ RGe(sheetRows[i].earning, Zero)

\* along the enriched records of one content, in output order, the
\* cumulative spend and the cumulative earning do not decrease
CumulativeNonDecreasing ==
  \A k \in 1..Len(processed) :
    \A j \in SameContentUpTo(k) :
      /\ RLe(processed[j].cumulativeSpend, processed[k].cumulativeSpend)
      /\ RLe(processed[j].cumulativeEarning, processed[k].cumulativeEarning)

\* C13 as stated: in the enriched output, for any fixed contentName,
\* cumulativeSpend and cumulativeEarning are non-decreasing along the
\* date-ascending sequence of that content's records.
C13_CumulativeNonDecreasingAnyAmount == CumulativeNonDecreasing

\* C13 amended: when no row of the sheet has a negative spend or earning,
\* cumulativeSpend and cumulativeEarning are non-decreasing along the
\* date-ascending sequence of the enriched records of any fixed
\* contentName.
C13_CumulativeNonDecreasing == NonNegativeAmounts => CumulativeNonDecreasing

\* three rows of one content, the latest first in the sheet, whose
\* cumulative spend and earning grow
C13_Witness ==
  /\ Fetched
  /\ NonNegativeAmounts
  /\ Len(processed) = 3
  /\ sheetRows[1].date > sheetRows[2].date
  /\ SameContentUpTo(3) = {1, 2, 3}
  /\ RLt(processed[1].cumulativeSpend, processed[3].cumulativeSpend)
  /\ RLt(processed[1].cumulativeEarning, processed[2].cumulativeEarning)

\* the sum of f over the enriched records of the content of record k, up
\* to k
RunningSum(f, k) == RSum(f, SameContentUpTo(k))

\* C14: the enriched records are in ascending date order; each record's
\* cumulativeSpend (cumulativeEarning) is the sum of spend (earning) over
\* the records of its contentName at or before it in that order, itself
\* included; cumulativeRoi is cumulativeEarning / cumulativeSpend of those
\* sums when the cumulative spend is positive, and 0 otherwise.
C14_RunningSums ==
  /\ \A j \in 1..Len(processed), k \in 1..Len(processed) :
       j <= k => processed[j].date <= processed[k].date
  /\ \A k \in 1..Len(processed) :
       LET r == processed[k]
           spend == RunningSum([j \in 1..Len(processed) |-> processed[j].spend], k)
           earning == RunningSum([j \in 1..Len(processed) |-> processed[j].earning], k)
       IN  /\ r.cumulativeSpend = spend
           /\ r.cumulativeEarning = earning
           /\ RGt(spend, Zero) => r.cumulativeRoi = RDiv(earning, spend)
           /\ ~RGt(spend, Zero) => r.cumulativeRoi = Zero

\* rows of two contents out of date order in the sheet; the last record
\* adds to an accumulator whose cumulativeRoi changes with it
C14_Witness ==
  /\ Fetched
  /\ Len(processed) = 3
  /\ sheetRows[1].date > sheetRows[2].date
  /\ processed[1].contentName # processed[2].contentName
  /\ SameContentUpTo(3) = {2, 3}
  /\ RGt(processed[3].spend, Zero)
  /\ processed[3].cumulativeRoi # processed[2].cumulativeRoi
  /\ processed[3].cumulativeRoi # processed[3].roi


-----------------------------------------------------------------------------
(* C12: zero divisors *)

PanelRendered == pc.card = "rendered"

\* the posts the tracker or the panel holds in this state
PostsInState ==
  UNION {{t.rushAnalysis.posts[k] : k \in 1..Len(t.rushAnalysis.posts)} :
           t \in {tierProgressList[i] : i \in 1..Len(tierProgressList)}
                    \ {u \in {tierProgressList[i] : i \in 1..Len(tierProgressList)} :
                         u.rushAnalysis = Null}}
    \cup (IF panelProps = Null THEN {}
          ELSE {panelProps.analysis.posts[k] :
                  k \in 1..Len(panelProps.analysis.posts)})

\* the ratios of the records, posts, progress entries and settlement
\* windows are finite, and 0 where their divisor is 0
GuardedRatios ==
  /\ \A i \in 1..Len(processed) :
        /\ IsFinite(processed[i].roi) /\ IsFinite(processed[i].cumulativeRoi)
        /\ processed[i].spend = Zero => processed[i].roi = Zero
        /\ processed[i].cumulativeSpend = Zero => processed[i].cumulativeRoi = Zero
  /\ \A p \in PostsInState :
        /\ IsFinite(p.roas) /\ IsFinite(p.roi) /\ IsFinite(p.avgDailyGmv)
        /\ p.totalSpend = Zero => p.roas = Zero /\ p.roi = Zero
        /\ p.daysWithData = 0 => p.avgDailyGmv = Zero
  /\ \A i \in 1..Len(tierProgressList) :
        /\ IsFinite(tierProgressList[i].dailyGmvNeeded)
        /\ tierProgressList[i].daysRemaining = 0
             => tierProgressList[i].dailyGmvNeeded = Zero
  /\ Settled => IsFinite(PeriodRatio(startDate, endDate))
  /\ PanelRendered =>
        \A k \in 1..Len(rushPanel.postsWithProjection) :
          LET q == rushPanel.postsWithProjection[k]
          IN  /\ IsFinite(q.extraSpend) /\ IsFinite(q.extraGmv)
              /\ IsFinite(q.extraCost)
              /\ q.post.roas = Zero => q.extraSpend = Zero
              /\ q.spendRatio # Null => IsFinite(q.spendRatio)

PanelTotalCurrentSpend ==
  RSum([k \in 1..Len(rushPanel.postsWithProjection) |->
          rushPanel.postsWithProjection[k].post.totalSpend],
       1..Len(rushPanel.postsWithProjection))

\* the spendRatio of every post of a panel whose total current spend is 0
SpendRatiosAtZeroSpendAre(ratio) ==
  PanelRendered /\ PanelTotalCurrentSpend = Zero =>
    \A k \in 1..Len(rushPanel.postsWithProjection) :
      rushPanel.postsWithProjection[k].spendRatio \in {Null, ratio}

-----------------------------------------------------------------------------
(* C15: when a TierProgress carries a rush analysis *)

\* the creator has a row within the three days before the latest date of
\* the ad data
HasPostInWindow(creatorName) ==
  \E i \in 1..Len(adData) :
    /\ adData[i].creatorName = creatorName
    /\ \A j \in 1..Len(adData) :
          adData[i].date >= adData[j].date - ProjectionWindowDays

\* C15: a TierProgress carries a non-null rushAnalysis only if there is a
\* next tier with gap > 0, the creator has at least one post in the
\* efficiency window, and the selected month is the current month
C15_RushAnalysisOnlyIf ==
  Tracked =>
    \A i \in 1..Len(tierProgressList) :
      LET t == tierProgressList[i]
      IN  t.rushAnalysis # Null =>
            /\ t.nextTier # Null
            /\ RGt(t.gapToNextTier, Zero)
            /\ HasPostInWindow(t.creatorName)
            /\ Len(t.rushAnalysis.posts) > 0
            /\ selectedMonth = MonthOf(now)

\* c1 has a rush analysis in the current month while c2, without posts,
\* has none
C15_Witness ==
  /\ Tracked
  /\ Len(tierProgressList) = 2
  /\ tierProgressList[1].rushAnalysis # Null
  /\ tierProgressList[2].rushAnalysis = Null
  /\ tierProgressList[2].nextTier # Null
  /\ selectedMonth = MonthOf(now)

-----------------------------------------------------------------------------
(* C16: reaching the next tier without extra spend *)

\* the sum over the panel's posts of avgDailyGmv x daysRemaining
PanelProjectedGmv ==
  RSum([k \in 1..Len(panelProps.analysis.posts) |->
          RMul(panelProps.analysis.posts[k].avgDailyGmv,
               Num(panelProps.daysRemaining))],
       1..Len(panelProps.analysis.posts))

\* C16: when the total projected GMV is at least the gap, shortfall = 0,
\* canReachNaturally is true and extraGmv, extraSpend and extraCost are 0
\* for every post; canReachNaturally is false when the projected GMV is
\* below the gap
C16_ReachNaturally ==
  PanelRendered =>
    /\ rushPanel.totalProjectedGmv = PanelProjectedGmv
    /\ RGe(PanelProjectedGmv, panelProps.gapToNextTier) =>
          /\ rushPanel.shortfall = Zero
          /\ rushPanel.canReachNaturally
          /\ \A k \in 1..Len(rushPanel.postsWithProjection) :
                /\ rushPanel.postsWithProjection[k].extraGmv = Zero
                /\ rushPanel.postsWithProjection[k].extraSpend = Zero
                /\ rushPanel.postsWithProjection[k].extraCost = Zero
    /\ RLt(PanelProjectedGmv, panelProps.gapToNextTier) =>
          ~rushPanel.canReachNaturally

\* the projection of a panel with a post that has spend and a sale exceeds
\* the gap
C16_Witness ==
  /\ PanelRendered
  /\ RGt(PanelProjectedGmv, panelProps.gapToNextTier)
  /\ rushPanel.canReachNaturally
  /\ \E k \in 1..Len(rushPanel.postsWithProjection) :
        /\ RGt(rushPanel.postsWithProjection[k].post.roas, Zero)
        /\ rushPanel.postsWithProjection[k].extraSpend = Zero

-----------------------------------------------------------------------------
(* C17: allocation of the shortfall *)

PanelIndex == 1..Len(rushPanel.postsWithProjection)

\* C17: with shortfall > 0 every post's extraGmv is its share of the total
\* current spend times the shortfall (extraGmv x total spend = shortfall x
\* the post's spend) and the extraGmv sum to the shortfall; totalExtraSpend
\* and totalExtraCost are the sums of the per-post extraSpend and extraCost
C17_AllocationSums ==
  PanelRendered =>
    /\ RGt(rushPanel.shortfall, Zero) =>
          /\ \A k \in PanelIndex :
                RMul(rushPanel.postsWithProjection[k].extraGmv,
                     PanelTotalCurrentSpend)
                  = RMul(rushPanel.shortfall,
                         rushPanel.postsWithProjection[k].post.totalSpend)
          /\ RSum([k \in PanelIndex |->
                     rushPanel.postsWithProjection[k].extraGmv], PanelIndex)
                = rushPanel.shortfall
    /\ rushPanel.totalExtraSpend
         = RSum([k \in PanelIndex |->
                   rushPanel.postsWithProjection[k].extraSpend], PanelIndex)
    /\ rushPanel.totalExtraCost
         = RSum([k \in PanelIndex |->
                   rushPanel.postsWithProjection[k].extraCost], PanelIndex)

\* a shortfall is split unevenly over two posts that both have spend, and
\* the extra spend has a cost
C17_Witness ==
  /\ PanelRendered
  /\ RGt(rushPanel.shortfall, Zero)
  /\ Len(rushPanel.postsWithProjection) = 2
  /\ RGt(rushPanel.postsWithProjection[1].extraGmv,
         rushPanel.postsWithProjection[2].extraGmv)
  /\ RGt(rushPanel.postsWithProjection[2].extraGmv, Zero)
  /\ RGt(rushPanel.totalExtraCost, Zero)

-----------------------------------------------------------------------------
(* C18: the stored recommendation and the per-post allocation *)

\* the panel was rendered by the card of a TierProgress
PanelOfCard == PanelRendered /\ Len(tierProgressList) > 0

\* 'rush' if netGain > 0, 'consider' if netGain > -0.5 x bonusIncrease,
\* otherwise 'skip'
RecommendationFor(netGain, bonusIncrease) ==
  IF RGt(netGain, Zero) THEN "rush"
  ELSE IF RGt(netGain, RMul(RSub(Zero, bonusIncrease), Half)) THEN "consider"
       ELSE "skip"

\* C18: the netGain stored in RushAnalysis is bonusIncrease minus the sum
\* of the per-post extraCost, as the panel computes it from the per-post
\* allocation, and the stored recommendation is derived from that netGain
C18_RecommendationAgrees ==
  PanelOfCard =>
    /\ rushPanel.netGain
         = RSub(panelProps.bonusIncrease,
                RSum([k \in PanelIndex |->
                        rushPanel.postsWithProjection[k].extraCost], PanelIndex))
    /\ panelProps.analysis.netGain = rushPanel.netGain
    /\ panelProps.analysis.recommendation
         = RecommendationFor(rushPanel.netGain, panelProps.bonusIncrease)

-----------------------------------------------------------------------------
(* C19: the settlement and the wall clock *)

\* the dates the wall clock may show at the time of a call
CallDates == {15, 31}

\* C19: calculateCreatorSettlements is a function of its five arguments:
\* the summary of the call is the summary of a call with the same records,
\* snapshots, window and useMonthlyCommission made on any other date
C19_SettlementIgnoresWallClock ==
  Settled =>
    \A today \in CallDates :
      earningsSummary =
        calculateCreatorSettlements(adData, bonusCalData, startDate, endDate,
                                    isMonthlyPeriod, today)

-----------------------------------------------------------------------------
(* C20: proration of the bonus difference *)

\* bonusDiff x periodDays / daysInMonth(windowEnd), periodDays being the
\* days between the window's ends plus one
ProratedOverWindow(bonusDiff) ==
  RDiv(RMul(bonusDiff, Num((endDate - startDate) + 1)),
       Num(MonthLengths[MonthOf(endDate)]))

\* C20: bonusDiffProrated equals bonusDiff when useMonthlyCommission is
\* true, and bonusDiff x periodDays / daysInMonth(windowEnd) otherwise,
\* where periodDays = ceil((windowEnd - windowStart) / 1 day) + 1
C20_BonusDiffProrated ==
  \A k \in 1..Len(Settlements) :
    Settlements[k].bonusDiffWeekly
      = IF isMonthlyPeriod THEN Settlements[k].bonusDiff
        ELSE ProratedOverWindow(Settlements[k].bonusDiff)

\* a week's settlement carries 7/31 of a non-zero monthly bonus difference
C20_Witness ==
  /\ ~isMonthlyPeriod
  /\ endDate - startDate = 6
  /\ \E k \in 1..Len(Settlements) :
        /\ Settlements[k].bonusDiff # Zero
        /\ Settlements[k].bonusDiffWeekly
             = RMul(Settlements[k].bonusDiff, Norm(7, 31))

-----------------------------------------------------------------------------
(* C21: the totals of the summary *)

SettlementIndex == 1..Len(Settlements)

\* the totals other than totalBonusDiff are the sums of their fields and
\* the settlements are in non-increasing order of adSpend
TotalsAndOrder ==
  /\ earningsSummary.totalSpend
       = RSum([k \in SettlementIndex |-> Settlements[k].adSpend], SettlementIndex)
  /\ earningsSummary.totalCommission
       = RSum([k \in SettlementIndex |-> Settlements[k].commissionEarning],
              SettlementIndex)
  /\ earningsSummary.totalProfit
       = RSum([k \in SettlementIndex |-> Settlements[k].profit], SettlementIndex)
  /\ earningsSummary.totalMarginTecdo
       = RSum([k \in SettlementIndex |-> Settlements[k].marginTecdo],
              SettlementIndex)
  /\ \A k \in SettlementIndex :
        k > 1 => RGe(Settlements[k - 1].adSpend, Settlements[k].adSpend)

\* C21 as stated: every total is the sum of the per-creator field of its
\* name, totalBonusDiff being the sum of bonusDiff
C21_TotalsOfNamedFields ==
  Settled =>
    /\ TotalsAndOrder
    /\ earningsSummary.totalBonusDiff
         = RSum([k \in SettlementIndex |-> Settlements[k].bonusDiff],
                SettlementIndex)

\* C21: totalSpend, totalCommission, totalProfit and totalMarginTecdo are
\* the sums of adSpend, commissionEarning, profit and marginTecdo over
\* creatorSettlements, totalBonusDiff is the sum of the prorated bonus
\* difference (bonusDiffWeekly), and creatorSettlements is ordered by
\* non-increasing adSpend
C21_Totals ==
  Settled =>
    /\ TotalsAndOrder
    /\ earningsSummary.totalBonusDiff
         = RSum([k \in SettlementIndex |-> Settlements[k].bonusDiffWeekly],
                SettlementIndex)

\* two settlements of different ad spend in a window shorter than the
\* month, one with a bonus difference
C21_Witness ==
  /\ Settled
  /\ ~isMonthlyPeriod
  /\ Len(Settlements) = 2
  /\ RGt(Settlements[1].adSpend, Settlements[2].adSpend)
  /\ \E k \in SettlementIndex : Settlements[k].bonusDiff # Zero
  /\ earningsSummary.totalBonusDiff # Zero

-----------------------------------------------------------------------------
(* C22: the two projections of a creator's GMV *)

\* the total projected GMV of the rush analyzer: the sum over the posts of
\* a rush analysis of avgDailyGmv x daysRemaining
AnalyzerProjectedGmv(posts, daysRemaining) ==
  RSum([k \in 1..Len(posts) |-> RMul(posts[k].avgDailyGmv, Num(daysRemaining))],
       1..Len(posts))

\* C22: for the same records, creator and daysRemaining, the projected GMV
\* the settlement engine adds to totalShippedRevenue equals the total
\* projected GMV of the creator's rush analysis
C22_ProjectionsAgree ==
  Tracked =>
    \A i \in 1..Len(tierProgressList) :
      LET t == tierProgressList[i]
      IN  t.rushAnalysis # Null =>
            calculateProjectedGmv(adData, t.creatorName, t.daysRemaining)
              = AnalyzerProjectedGmv(t.rushAnalysis.posts, t.daysRemaining)

-----------------------------------------------------------------------------
(* C23: the post-efficiency window *)

\* C23: every PostEfficiency of a rush analysis has 1 <= daysWithData <= 3,
\* the window spanning the trailing 3 days of the data, and isNewPost is
\* true exactly when daysWithData < 3
C23_WindowOfThreeDays ==
  Tracked =>
    \A i \in 1..Len(tierProgressList) :
      tierProgressList[i].rushAnalysis # Null =>
        \A k \in 1..Len(tierProgressList[i].rushAnalysis.posts) :
          LET p == tierProgressList[i].rushAnalysis.posts[k]
          IN  /\ 1 <= p.daysWithData
              /\ p.daysWithData <= ProjectionWindowDays
              /\ p.isNewPost <=> p.daysWithData < 3

-----------------------------------------------------------------------------
(* C24: days remaining and the daily GMV needed *)

\* C24: for a historical month daysRemaining is 0 and dailyGmvNeeded is 0;
\* for the current month daysRemaining is at least 1 and dailyGmvNeeded is
\* gapToNextTier / daysRemaining when a next tier exists
C24_DailyGmvNeeded ==
  Tracked =>
    \A i \in 1..Len(tierProgressList) :
      LET t == tierProgressList[i]
      IN  IF selectedMonth = MonthOf(now)
          THEN /\ t.daysRemaining >= 1
               /\ t.nextTier # Null =>
                     t.dailyGmvNeeded
                       = RDiv(t.gapToNextTier, Num(t.daysRemaining))
          ELSE /\ t.daysRemaining = 0
               /\ t.dailyGmvNeeded = Zero

\* in mid January a creator needs 1/8 a day to close a gap of 2 in the 16
\* days left
C24_Witness ==
  /\ Tracked
  /\ selectedMonth = MonthOf(now)
  /\ \E i \in 1..Len(tierProgressList) :
        /\ tierProgressList[i].nextTier # Null
        /\ tierProgressList[i].daysRemaining = 16
        /\ tierProgressList[i].gapToNextTier = Num(2)
        /\ tierProgressList[i].dailyGmvNeeded = Norm(1, 8)

-----------------------------------------------------------------------------
(* C25: failures during the initial load *)

AllSettled == \A f \in Fetches : app.promise[f] # "pending"

\* C25: the error state is entered only when the ad-data fetch has failed,
\* a failure of the other three fetches being absorbed as an empty result,
\* and once all four fetches have settled loading ends as false
C25_LoadFailures ==
  /\ [](app.error => app.promise["fetchData"] = "rejected")
  /\ [](\A f \in Fetches \ {"fetchData"} : app.promise[f] # "rejected")
  /\ AllSettled ~> ~app.loading

\* the tier, post-links and bonus-cal fetches have all failed and the app
\* has finished loading without an error
C25_Witness ==
  /\ \A f \in Fetches \ {"fetchData"} : app.promise[f] = "empty"
  /\ app.promise["fetchData"] = "fulfilled"
  /\ ~app.loading
  /\ ~app.error

-----------------------------------------------------------------------------
(* C26: the total payment of a monthly settlement *)

-----------------------------------------------------------------------------
(* C27: a creator with a snapshot and the degraded settlement *)

\* C27: a creator that has a bonus snapshot never receives the degraded
\* settlement: its commissionEarning follows the commission-source rule and
\* its totalTierBonus, organicTierBonus and bonusDiff are resolved from the
\* tiers of its snapshot
C27_SnapshotNeverDegraded ==
  Settled =>
    \A k \in 1..Len(Settlements) :
      LET s == Settlements[k]
      IN  HasSnapshot(s.creatorName) =>
            /\ s.commissionEarning =
                 IF isMonthlyPeriod THEN SnapshotOf(s.creatorName).commissionAds
                 ELSE WindowEarning(s.creatorName)
            /\ s.totalTierBonus =
                 calculateTierBonus(ProjectedTotalRevenue(SnapshotOf(s.creatorName)),
                                    SnapshotOf(s.creatorName).tiers)
            /\ s.organicTierBonus =
                 calculateTierBonus(SnapshotOf(s.creatorName).shippedRevOrganic,
                                    SnapshotOf(s.creatorName).tiers)
            /\ s.bonusDiff = RSub(s.totalTierBonus, s.organicTierBonus)

-----------------------------------------------------------------------------
(* C28: one settlement per creator *)

SettledCreators == {Settlements[k].creatorName : k \in SettlementIndex}

\* at most one bonus snapshot per creatorName
OneSnapshotPerCreator ==
  \A j, k \in 1..Len(bonusCalData) :
    bonusCalData[j].creatorName = bonusCalData[k].creatorName => j = k

\* C28: given at most one bonus snapshot per creatorName, every creatorName
\* appears at most once in creatorSettlements, and totalSpend counts the
\* window's spend of every settled creator once
C28_OneSettlementPerCreator ==
  Settled /\ OneSnapshotPerCreator =>
    /\ \A j, k \in SettlementIndex :
          Settlements[j].creatorName = Settlements[k].creatorName => j = k
    /\ earningsSummary.totalSpend
         = RSum([c \in SettledCreators |-> WindowSpend(c)], SettledCreators)

\* a creator with a snapshot and rows in the window is settled next to a
\* creator without a snapshot
C28_Witness ==
  /\ Settled
  /\ Len(Settlements) = 2
  /\ \E k \in SettlementIndex :
        /\ HasSnapshot(Settlements[k].creatorName)
        /\ RGt(Settlements[k].adSpend, Zero)
        /\ Settlements[k].totalTierBonus # Zero
  /\ \E k \in SettlementIndex : ~HasSnapshot(Settlements[k].creatorName)

-----------------------------------------------------------------------------
(* C29: the equal split is not taken for a creator's rush analysis *)

\* C29: whenever a rush analysis is produced for a creator, the creator's
\* posts have total spend > 0 and total GMV > 0; hence in the per-post
\* allocation of its panel totalCurrentSpend is not 0 and every spendRatio
\* is the post's share of the spend, never the equal split
C29_NoEqualSplit ==
  /\ \A i \in 1..Len(tierProgressList) :
        tierProgressList[i].rushAnalysis # Null =>
          LET posts == tierProgressList[i].rushAnalysis.posts
          IN  /\ RGt(RSum([k \in 1..Len(posts) |-> posts[k].totalSpend],
                          1..Len(posts)), Zero)
              /\ RGt(RSum([k \in 1..Len(posts) |-> posts[k].totalGmv],
                          1..Len(posts)), Zero)
              /\ RGt(tierProgressList[i].rushAnalysis.avgRoas, Zero)
  /\ PanelOfCard =>
        /\ RGt(PanelTotalCurrentSpend, Zero)
        /\ \A k \in PanelIndex :
              rushPanel.postsWithProjection[k].spendRatio # Null =>
                RMul(rushPanel.postsWithProjection[k].spendRatio,
                     PanelTotalCurrentSpend)
                  = rushPanel.postsWithProjection[k].post.totalSpend

\* the panel of a creator's card has allocated a shortfall over two posts,
\* one of them without spend
C29_Witness ==
  /\ PanelOfCard
  /\ RGt(rushPanel.shortfall, Zero)
  /\ Len(rushPanel.postsWithProjection) = 2
  /\ \E k \in PanelIndex :
        /\ rushPanel.postsWithProjection[k].post.totalSpend = Zero
        /\ rushPanel.postsWithProjection[k].spendRatio = Zero

-----------------------------------------------------------------------------
(* C30: the size of the proration *)

RAbs(x) == IF RLt(x, Zero) THEN RSub(Zero, x) ELSE x

\* C30: for every window with windowStart <= windowEnd, periodRatio lies in
\* (0, 1] and the prorated bonus difference is not larger in absolute
\* value than the monthly one
C30_ProrationShrinks ==
  Settled /\ startDate <= endDate =>
    /\ RGt(PeriodRatio(startDate, endDate), Zero)
    /\ RLe(PeriodRatio(startDate, endDate), Num(1))
    /\ \A k \in SettlementIndex :
          RLe(RAbs(Settlements[k].bonusDiffWeekly), RAbs(Settlements[k].bonusDiff))

=============================================================================
